---- MODULE Spec2Model ----
(***************************************************************************)
(* A model of docs/web_network.py: create_web_network reads a table of     *)
(* (Gene Symbol, Tumor, PCC) rows, keeps the rows with PCC >= 0.8, builds  *)
(* a networkx graph central -> tissue -> gene, lays it out, emits the node *)
(* and link arrays, writes them into an HTML page and opens the page.      *)
(* The script of that page (pan, zoom, drag, re-cluster, legend) is        *)
(* modelled after the call: PageSpec runs the call and then the page,      *)
(* ZoomSpec the page alone.                                                *)
(*                                                                         *)
(* Numbers.  A PCC is held in thousandths (0.8 is 800), and so is an edge  *)
(* weight (5.0 is 5000, pcc * 3 is three times the thousandths). The zoom  *)
(* factor of the page is held as the IEEE 754 double it is, and its        *)
(* products are rounded as the double product is.                          *)
(* Output.  Every print of the call is a write of its own to standard      *)
(* output that may raise, whatever the writes before it did, and so is     *)
(* the write of traceback.print_exc to standard error.                     *)
(* Positions.  The coordinates are kept as terms instead of floats:        *)
(*   [kind |-> "xy", x, y]               the point (x, y)                  *)
(*   [kind |-> "circle", radius, turn]   radius * (cos a, sin a) with      *)
(*                                       a = turn * golden_angle           *)
(*   [kind |-> "cloud", center, num, den, distance, noise_scale]           *)
(*        center + (d * cos b, d * sin b), b = (num / den) * 2 pi + noise, *)
(*        d = distance + noise; distance and noise_scale in millionths.    *)
(* The two np.random.normal draws of a cloud position are not part of the  *)
(* term: a cloud term stands for every point the draws can give.           *)
(***************************************************************************)
EXTENDS Integers, Sequences, FiniteSets, TLC

\* ------------------------------------------------------------- bounds
\* Longest freely chosen table (rows of the input file).
MaxRows == 2

\* ------------------------------------------------- program constants
PCC_THRESHOLD == 800
max_genes_per_tissue == 150
radius == 400
CENTRAL_WEIGHT == 5000
GENE_WEIGHT_FACTOR == 3

color_list ==
  << "#4daf4a", "#f781bf", "#a65628", "#984ea3", "#999999", "#e41a1c", "#377eb8",
     "#ff7f00", "#ffff33", "#a6cee3", "#1f78b4", "#b2df8a", "#33a02c", "#fb9a99",
     "#e31a1c", "#fdbf6f", "#ff7f00", "#cab2d6", "#6a3d9a", "#ffff99", "#b15928", "#00ffff" >>

\* --------------------------------------------------------- the inputs
RequiredColumns == {"Gene Symbol", "Tumor", "PCC"}

\* The header of the input file: complete, or lacking one required column.
ColumnSets == {RequiredColumns} \cup {RequiredColumns \ {c} : c \in RequiredColumns}

\* Gene symbols: an ordinary one, the default central identifier, and one
\* spelled like a tissue label.
GeneNames == {"A", "GCH1", "T1"}
TissueNames == {"T1", "T2"}
\* Below the threshold, on it, above it.
PccValues == {790, 800, 990}
\* The central_node parameter: the default, and an identifier that is also a
\* tissue label and a gene symbol of the tables.
CentralNames == {"GCH1", "T1"}
\* The output_file parameter, by its directory part: the default
\* 'network_visualization.html' has none, __main__ passes 'Network Analysis/...'.
OutputDirs == {"", "Network Analysis"}

FullRows ==
  { [c \in RequiredColumns |->
        CASE c = "Gene Symbol" -> g [] c = "Tumor" -> t [] OTHER -> p]
      : g \in GeneNames, t \in TissueNames, p \in PccValues }

Project(r, cols) == [c \in cols |-> r[c]]

RowsOver(cols) == {Project(r, cols) : r \in FullRows}

SeqsUpTo(S, n) == UNION {[1..m -> S] : m \in 0..n}

\* A block of max_genes_per_tissue further rows of tissue T1 with pairwise
\* distinct symbols and pairwise distinct scores between the two qualifying
\* scores of PccValues: alone it fills the cap exactly, with one more
\* qualifying row of T1 the tissue exceeds it.
FillerRows ==
  [i \in 1..max_genes_per_tissue |->
      [c \in RequiredColumns |->
          CASE c = "Gene Symbol" -> "F" \o ToString(i)
            [] c = "Tumor" -> "T1"
            [] OTHER -> PCC_THRESHOLD + i]]

\* The chosen rows in front of the filler block: qualifying rows of the
\* ordinary gene, in either tissue, above or below every filler score.
CapRows == {r \in FullRows : r["Gene Symbol"] = "A" /\ r["PCC"] >= PCC_THRESHOLD}

\* The input files: every table of up to MaxRows rows under every header,
\* and the tables that reach the cap.
Tables ==
  UNION { {[columns |-> cols, rows |-> rs] : rs \in SeqsUpTo(RowsOver(cols), MaxRows)}
          : cols \in ColumnSets }
  \cup { [columns |-> RequiredColumns, rows |-> p \o FillerRows]
          : p \in SeqsUpTo(CapRows, MaxRows) }

\* ------------------------------------------------------------ helpers
Max(S) == CHOOSE m \in S : \A n \in S : n <= m
Min2(a, b) == IF a <= b THEN a ELSE b
Range(s) == {s[i] : i \in 1..Len(s)}
Contains(s, x) == \E i \in 1..Len(s) : s[i] = x
IndexOf(s, x) == CHOOSE i \in 1..Len(s) : s[i] = x /\ \A j \in 1..(i - 1) : s[j] # x
\* dict[key] = val
Extend(f, key, val) == (key :> val) @@ f
\* dict.update(): the keys of new win.
Merge(old, new) == new @@ old
EmptyMap == [d \in {} |-> 0]

\* ---------------------------------------------------------- pandas
\* pd.read_csv: the rows under a RangeIndex 0, 1, 2, ...
read_csv(file) == [i \in 1..Len(file.rows) |-> [index |-> i - 1, row |-> file.rows[i]]]

\* df[df['PCC'] >= 0.8]: the rows keep their order and their index labels.
FilterRowsAll(df) == df
FilterRows(df) == SelectSeq(df, LAMBDA r : r.row["PCC"] >= PCC_THRESHOLD)

\* Series.unique(): the distinct values in order of first appearance.
unique(s) ==
  LET firsts == {i \in 1..Len(s) : \A j \in 1..(i - 1) : s[j] # s[i]}
  IN [m \in 1..Cardinality(firsts) |->
        s[CHOOSE i \in firsts : Cardinality({j \in firsts : j <= i}) = m]]

Column(df, c) == [i \in 1..Len(df) |-> df[i].row[c]]

\* Counter(series): how often each value occurs.
Counter(s) == [v \in Range(s) |-> Cardinality({i \in 1..Len(s) : s[i] = v})]

\* filtered_df[filtered_df['Tumor'] == tissue]
TissueRows(df, tissue) == SelectSeq(df, LAMBDA r : r.row["Tumor"] = tissue)

PccLevels(rows) == {rows[i].row["PCC"] : i \in 1..Len(rows)}
Min(S) == CHOOSE m \in S : \A n \in S : m <= n

\* sort_values('PCC', ascending=False) under a stable kernel: descending PCC,
\* rows of equal PCC in their original order.
\* The rows, all with lo <= PCC <= hi: those of the upper half of the range
\* first, each half sorted the same way.
RECURSIVE SortDescending(_, _, _)
SortDescending(rows, lo, hi) ==
  IF rows = <<>> \/ lo = hi THEN rows
  ELSE LET mid == (lo + hi) \div 2
       IN SortDescending(SelectSeq(rows, LAMBDA r : r.row["PCC"] > mid), mid + 1, hi)
            \o SortDescending(SelectSeq(rows, LAMBDA r : r.row["PCC"] <= mid), lo, mid)

sort_values_stable(rows) ==
  IF rows = <<>> THEN rows
  ELSE SortDescending(rows, Min(PccLevels(rows)), Max(PccLevels(rows)))

Orderings(s) == {[i \in 1..Len(s) |-> s[p[i]]] : p \in Permutations(1..Len(s))}

\* sort_values('PCC', ascending=False) as called: kind defaults to
\* 'quicksort', which pandas documents as not stable, so rows of equal PCC
\* may come out in any order. The set of the orders the sort can return.
RECURSIVE SortOutcomes(_, _, _)
SortOutcomes(rows, lo, hi) ==
  IF rows = <<>> THEN {rows}
  ELSE IF lo = hi THEN Orderings(rows)
  ELSE LET mid == (lo + hi) \div 2
       IN { upper \o lower :
              upper \in SortOutcomes(SelectSeq(rows, LAMBDA r : r.row["PCC"] > mid),
                                     mid + 1, hi),
              lower \in SortOutcomes(SelectSeq(rows, LAMBDA r : r.row["PCC"] <= mid),
                                     lo, mid) }

sort_values(rows) ==
  IF rows = <<>> THEN {rows}
  ELSE SortOutcomes(rows, Min(PccLevels(rows)), Max(PccLevels(rows)))

\* DataFrame.head(n)
head(rows, n) == SubSeq(rows, 1, Min2(Len(rows), n))

\* --------------------------------------------------------- networkx
\* nx.Graph(): the nodes in insertion order, their attribute dicts, the
\* neighbours of each node in insertion order, and the weight of each edge
\* (an edge is the set of its one or two end points).
EmptyGraph == [nodes |-> <<>>, attr |-> EmptyMap, adj |-> EmptyMap, weight |-> EmptyMap]

HasNode(g, n) == n \in DOMAIN g.attr

\* G.add_node(n, **attrs): a new node, or an update of the attributes of a
\* node that is already there.
add_node(g, n, attrs) ==
  IF HasNode(g, n)
  THEN [g EXCEPT !.attr[n] = Merge(@, attrs)]
  ELSE [g EXCEPT !.nodes = Append(@, n),
                 !.attr = Extend(@, n, attrs),
                 !.adj = Extend(@, n, <<>>)]

\* G.add_edge(u, v, weight=w): missing end points are added without
\* attributes; an edge that is already there keeps its place and takes the
\* new weight.
add_edge(g, u, v, w) ==
  LET g1 == IF HasNode(g, u) THEN g ELSE add_node(g, u, EmptyMap)
      g2 == IF HasNode(g1, v) THEN g1 ELSE add_node(g1, v, EmptyMap)
      au == IF Contains(g2.adj[u], v) THEN g2.adj[u] ELSE Append(g2.adj[u], v)
      g3 == [g2 EXCEPT !.adj[u] = au]
      av == IF Contains(g3.adj[v], u) THEN g3.adj[v] ELSE Append(g3.adj[v], u)
  IN [g3 EXCEPT !.adj[v] = av, !.weight = Extend(@, {u, v}, w)]

\* G.edges(): every node in insertion order with those of its neighbours
\* that were not reported as a first end point before.
EdgesOf(g, i) ==
  LET n == g.nodes[i]
      seen == {g.nodes[j] : j \in 1..(i - 1)}
      nbrs == SelectSeq(g.adj[n], LAMBDA v : v \notin seen)
  IN [j \in 1..Len(nbrs) |-> <<n, nbrs[j]>>]

\* The edges reported for the nodes lo..hi, in order.
RECURSIVE EdgesFrom(_, _, _)
EdgesFrom(g, lo, hi) ==
  IF lo > hi THEN <<>>
  ELSE IF lo = hi THEN EdgesOf(g, lo)
  ELSE LET mid == (lo + hi) \div 2
       IN EdgesFrom(g, lo, mid) \o EdgesFrom(g, mid + 1, hi)

edges(g) == EdgesFrom(g, 1, Len(g.nodes))

\* ------------------------------------------------------------ layout
Origin == [kind |-> "xy", x |-> 0, y |-> 0]

\* (radius * cos(i * golden_angle), radius * sin(i * golden_angle))
CirclePosition(i) == [kind |-> "circle", radius |-> radius, turn |-> i]

\* The cloud position of a gene row around the position of its tissue.
CloudPosition(center, idx, n, pcc) ==
  [kind |-> "cloud", center |-> center, num |-> idx, den |-> n,
   distance |-> 50 * 1000000 + (1000 - pcc) * 150 * 1000,
   noise_scale |-> 300000 + 600 * (1000 - pcc)]

\* ------------------------------------------------------------- state
VARIABLES
  csv,                \* the input file: its header and its rows
  central_node,       \* parameter central_node
  output_dir,         \* os.path.dirname(output_file)
  pc,                 \* the statement create_web_network is at
  df, filtered_df, tissue_types, tissue_gene_counts, tissue_colors,
  G, fixed_positions, genes_added,
  ti,                 \* the tissue the loop of lines 54-62 is at
  k,                  \* the tissue the loop of lines 68-107 is at
  nodes_data, links_data, html_content,
  dir_made,           \* os.makedirs(output_dir) was run
  dir_exists,         \* os.path.exists(output_dir), true of the directory ''
  output,             \* the file at output_file: what this run did to it
  browser_opened,     \* webbrowser.open returned
  failed,             \* the stage that raised, "none" if none did
  result,             \* what the call returned
  \* The page of lines 174-849 in the viewer: the variables of its script.
  loaded,             \* the script of lines 346-846 has run
  nodesData,          \* the node array, with the x and y the page gives each node
  legend,             \* the texts of the legend entries, top to bottom
  scale,              \* the zoom factor, a double
  offset,             \* offsetX, offsetY
  dragNode,           \* the place in nodesData of the node being dragged, 0 for null
  isDraggingCanvas,
  cursor,             \* canvas.style.cursor
  tooltip,            \* the id of the node the tooltip shows, "none" when hidden
  canvas_size,        \* width, height
  wheels              \* the wheel events handled since scale was last set to 1

\* The variables of the page.
page_vars == << loaded, nodesData, legend, scale, offset, dragNode, isDraggingCanvas,
                cursor, tooltip, canvas_size, wheels >>

vars == << page_vars, csv, central_node, output_dir, pc, df, filtered_df, tissue_types,
           tissue_gene_counts, tissue_colors, G, fixed_positions, genes_added,
           ti, k, nodes_data, links_data, html_content, dir_made, dir_exists, output,
           browser_opened, failed, result >>

NoContent == [nodes |-> <<>>, links |-> <<>>]
Untouched == [status |-> "untouched", content |-> NoContent]

\* ---------------------------------------------------- the page: state
\* The zoom factor is a JavaScript Number, an IEEE 754 double, and is held
\* as one: [mant, exp] is mant * 2^(exp - 52), the 53 bits of mant in five
\* limbs of 13 bits, lowest first, the fifth limb being the leading 1.
\* The pointer's coordinates are not part of the state: an event carries the
\* node that getNodeAtPosition finds under the pointer, and what the
\* handlers compute from the coordinates (dragOffsetX/Y, startX/Y, the
\* offsets after a pan or a zoom, the place a drag puts a node) is kept as
\* a term that names the assignment.
Base == 2^13
Limbs == 5

\* The literals 1, 0.1, 5, 1.1 and 0.9 as doubles: 0x1.0p+0,
\* 0x1.999999999999ap-4, 0x1.4p+2, 0x1.199999999999ap+0, 0x1.ccccccccccccdp-1.
SCALE_ONE == [mant |-> << 0, 0, 0, 0, 1 >>, exp |-> 0]
MIN_SCALE == [mant |-> << 6554, 3276, 1638, 4915, 1 >>, exp |-> -4]
MAX_SCALE == [mant |-> << 0, 0, 0, 2048, 1 >>, exp |-> 2]
ZOOM_IN == [mant |-> << 6554, 3276, 1638, 819, 1 >>, exp |-> 0]
ZOOM_OUT == [mant |-> << 3277, 1638, 4915, 6553, 1 >>, exp |-> -1]

\* a < b for two positive doubles.
RECURSIVE MantLess(_, _, _)
MantLess(a, b, i) ==
  IF i = 0 THEN FALSE
  ELSE IF a[i] # b[i] THEN a[i] < b[i]
  ELSE MantLess(a, b, i - 1)

Less(a, b) == a.exp < b.exp \/ (a.exp = b.exp /\ MantLess(a.mant, b.mant, Limbs))

\* The limb of weight Base^(j - 1) of the exact product of two mantissas,
\* before the carries: the sum of a[i] * b[j + 1 - i].
RECURSIVE Partial(_, _, _, _)
Partial(a, b, j, i) ==
  IF i > Limbs THEN 0
  ELSE (IF j + 1 - i \in 1..Limbs THEN a[i] * b[j + 1 - i] ELSE 0) + Partial(a, b, j, i + 1)

\* The limbs j .. 2 * Limbs - 1 of the exact product, carry coming in.
RECURSIVE Carried(_, _, _, _)
Carried(a, b, j, carry) ==
  IF j > 2 * Limbs - 1 THEN << >>
  ELSE LET t == Partial(a, b, j, 1) + carry
       IN << t % Base >> \o Carried(a, b, j + 1, t \div Base)

\* m + 1, limb by limb from limb i; the leading limb takes the last carry.
RECURSIVE Successor(_, _)
Successor(m, i) ==
  IF i = Limbs \/ m[i] + 1 < Base THEN [m EXCEPT ![i] = m[i] + 1]
  ELSE Successor([m EXCEPT ![i] = 0], i + 1)

\* a * b in double arithmetic: the exact product of the mantissas, a number
\* of 105 or 106 bits, cut to 53 bits and rounded to nearest, ties to even.
Times(a, b) ==
  LET p == Carried(a.mant, b.mant, 1, 0)
      wide == p[2 * Limbs - 1] >= 2                       \* 106 bits
      q == [i \in 1..Limbs |-> p[i + Limbs - 1]]           \* the product without its low 52 bits
      low == \E i \in 1..(Limbs - 1) : p[i] # 0            \* a low bit is set
      m == IF wide
           THEN [i \in 1..Limbs |->
                   (q[i] \div 2) + (IF i < Limbs THEN (q[i + 1] % 2) * (Base \div 2) ELSE 0)]
           ELSE q
      up == IF wide
            THEN q[1] % 2 = 1 /\ (low \/ m[1] % 2 = 1)
            ELSE \/ p[Limbs - 1] > Base \div 2
                 \/ /\ p[Limbs - 1] = Base \div 2
                    /\ \/ \E i \in 1..(Limbs - 2) : p[i] # 0
                       \/ m[1] % 2 = 1
      r == IF up THEN Successor(m, 1) ELSE m
      e == a.exp + b.exp + (IF wide THEN 1 ELSE 0)
  IN IF r[Limbs] = 2
     THEN [mant |-> [r EXCEPT ![Limbs] = 1], exp |-> e + 1]
     ELSE [mant |-> r, exp |-> e]

\* The most wheel events between two assignments of 1 to scale (line 370,
\* resetView): after the call, and on the page alone, where 17 events reach
\* MAX_SCALE and 22 reach MIN_SCALE.
MaxWheel == 2
MaxZoom == 22
\* container.clientWidth, container.clientHeight
ContainerSizes == {<<800, 600>>, <<801, 601>>}

\* n / 2 for a whole number n: whole + halves / 2.
Half(n) == [whole |-> n \div 2, halves |-> n % 2]
\* offsetX = width / 2, offsetY = height / 2
Center(size) == [kind |-> "center", x |-> Half(size[1]), y |-> Half(size[2])]
\* offsetX += mouseX - startX, offsetY += mouseY - startY
Panned == [kind |-> "panned"]
\* offsetX = mouseX - x * scale, offsetY = mouseY - y * scale
Zoomed == [kind |-> "zoomed"]

\* Before the viewer runs the script: the values of the declarations.
NotLoaded ==
  /\ loaded = FALSE
  /\ nodesData = <<>>
  /\ legend = <<>>
  /\ scale = SCALE_ONE
  /\ offset = Center(<<0, 0>>)
  /\ dragNode = 0
  /\ isDraggingCanvas = FALSE
  /\ cursor = "default"
  /\ tooltip = "none"
  /\ canvas_size = <<0, 0>>
  /\ wheels = 0

Init ==
  /\ csv \in Tables
  /\ central_node \in CentralNames
  /\ output_dir \in OutputDirs
  /\ pc = "enter"
  /\ df = <<>>
  /\ filtered_df = <<>>
  /\ tissue_types = <<>>
  /\ tissue_gene_counts = EmptyMap
  /\ tissue_colors = EmptyMap
  /\ G = EmptyGraph
  /\ fixed_positions = EmptyMap
  /\ genes_added = 0
  /\ ti = 1
  /\ k = 1
  /\ nodes_data = <<>>
  /\ links_data = <<>>
  /\ html_content = NoContent
  /\ dir_made = FALSE
  /\ dir_exists \in (IF output_dir = "" THEN {TRUE} ELSE BOOLEAN)
  /\ output = Untouched
  /\ browser_opened = FALSE
  /\ failed = "none"
  /\ result = [kind |-> "pending"]
  /\ NotLoaded

\* ------------------------------------------------- the try statement
\* Where control goes when a statement of the try block (lines 15-864)
\* raises an Exception: the except clause of line 866.
Handler(stage) == "except"

\* A statement raises: the locals keep what they hold.
Raise(stage) ==
  /\ pc' = Handler(stage)
  /\ failed' = stage
  /\ UNCHANGED << page_vars, csv, central_node, output_dir, df, filtered_df, tissue_types,
                  tissue_gene_counts, tissue_colors, G, fixed_positions,
                  genes_added, ti, k, nodes_data, links_data, html_content,
                  dir_made, dir_exists, output, browser_opened, result >>

\* print(...) encodes its text and writes it to sys.stdout, and raises when
\* that fails (UnicodeEncodeError for a text the stream's encoding lacks,
\* OSError, BrokenPipeError, ValueError on a closed file). Each print is a
\* write of its own: one that follows a failed print may succeed or fail.
\* The outcomes of one print: TRUE when the text was written.
CanWrite == BOOLEAN

\* A print of the try block (lines 24, 74, 109, 859) raises.
StdoutRaises == Raise("report")

\* Line 13, before the try statement: print(f"Loading data from ..."); an
\* exception it raises leaves create_web_network.
Enter ==
  /\ pc = "enter"
  /\ \E written \in CanWrite :
       IF written
       THEN /\ pc' = "load"
            /\ UNCHANGED failed
       ELSE /\ pc' = "propagated"
            /\ failed' = "enter"
  /\ UNCHANGED << page_vars, csv, central_node, output_dir, df, filtered_df, tissue_types,
                  tissue_gene_counts, tissue_colors, G, fixed_positions,
                  genes_added, ti, k, nodes_data, links_data, html_content,
                  dir_made, dir_exists, output, browser_opened, result >>

\* Line 17: pd.read_csv(input_file); a missing or unreadable file raises.
Load ==
  /\ pc = "load"
  /\ \E readable \in BOOLEAN :
       IF readable
       THEN /\ df' = read_csv(csv)
            /\ pc' = "filter"
            /\ UNCHANGED << page_vars, csv, central_node, output_dir, filtered_df, tissue_types,
                            tissue_gene_counts, tissue_colors, G, fixed_positions,
                            genes_added, ti, k, nodes_data, links_data,
                            html_content, dir_made, dir_exists, output, browser_opened,
                            failed, result >>
       ELSE Raise("load")

\* Line 18: df[df['PCC'] >= 0.8].copy(); df['PCC'] raises KeyError when the
\* column is missing.
Filter ==
  /\ pc = "filter"
  /\ IF "PCC" \in csv.columns
     THEN /\ filtered_df' = FilterRows(df)
          /\ pc' = "tissue_types"
          /\ UNCHANGED << page_vars, csv, central_node, output_dir, df, tissue_types,
                          tissue_gene_counts, tissue_colors, G, fixed_positions,
                          genes_added, ti, k, nodes_data, links_data,
                          html_content, dir_made, dir_exists, output, browser_opened,
                          failed, result >>
     ELSE Raise("filter")

\* tissue_colors of lines 40-42.
TissueColors(types) ==
  [t \in Range(types) |-> color_list[((IndexOf(types, t) - 1) % Len(color_list)) + 1]]

\* Lines 22-48: the tissue labels of the filtered rows, their row counts, the
\* print of line 24, the graph with the central node, the colours and the
\* central position; filtered_df['Tumor'] raises KeyError when the column is
\* missing.
AddCentral ==
  /\ pc = "tissue_types"
  /\ IF "Tumor" \in csv.columns
     THEN /\ tissue_types' = unique(Column(filtered_df, "Tumor"))
          /\ tissue_gene_counts' = Counter(Column(filtered_df, "Tumor"))
          /\ \E written \in CanWrite :
               IF written
               THEN /\ G' = add_node(EmptyGraph, central_node, [node_type |-> "central"])
                    /\ tissue_colors' = TissueColors(tissue_types')
                    /\ fixed_positions' = Extend(EmptyMap, central_node, Origin)
                    /\ ti' = 1
                    /\ pc' = IF tissue_types' = <<>> THEN "genes_added" ELSE "tissue_loop"
                    /\ UNCHANGED failed
               ELSE /\ pc' = Handler("report")
                    /\ failed' = "report"
                    /\ UNCHANGED << G, tissue_colors, fixed_positions, ti >>
          /\ UNCHANGED << page_vars, csv, central_node, output_dir, df, filtered_df,
                          genes_added, k, nodes_data, links_data, html_content,
                          dir_made, dir_exists, output, browser_opened, result >>
     ELSE Raise("filter")

\* Lines 54-62, one pass of the loop: the position of the tissue on the
\* circle, its node and its edge to the central node.
AddTissueNode ==
  /\ pc = "tissue_loop"
  /\ LET tissue == tissue_types[ti]
         g1 == add_node(G, tissue, [node_type |-> "tissue",
                                    gene_count |-> tissue_gene_counts[tissue]])
     IN /\ fixed_positions' = Extend(fixed_positions, tissue, CirclePosition(ti - 1))
        /\ G' = add_edge(g1, central_node, tissue, CENTRAL_WEIGHT)
  /\ ti' = ti + 1
  /\ k' = 1
  /\ pc' = IF ti = Len(tissue_types) THEN "gene_loop" ELSE "tissue_loop"
  /\ UNCHANGED << page_vars, csv, central_node, output_dir, df, filtered_df, tissue_types,
                  tissue_gene_counts, tissue_colors, genes_added, nodes_data,
                  links_data, html_content, dir_made, dir_exists, output, browser_opened,
                  failed, result >>

\* Lines 82-84: the gene becomes a node unless a node of that name exists.
AddGeneNodeAlways(g, gene, pcc, tissue) ==
  add_node(g, gene, [node_type |-> "gene", pcc |-> pcc, tissue |-> tissue])
AddGeneNode(g, gene, pcc, tissue) ==
  IF HasNode(g, gene) THEN g
  ELSE add_node(g, gene, [node_type |-> "gene", pcc |-> pcc, tissue |-> tissue])

\* Lines 78-107, one pass of the inner loop over the rows of tissue_genes;
\* idx is the index label the row carries from the input file, n is
\* len(tissue_genes).
GeneRowStep(st, entry, tissue, n) ==
  LET gene == entry.row["Gene Symbol"]
      pcc == entry.row["PCC"]
      g1 == AddGeneNode(st.G, gene, pcc, tissue)
      added == IF HasNode(st.G, gene) THEN 0 ELSE 1
      g2 == add_edge(g1, gene, tissue, pcc * GENE_WEIGHT_FACTOR)
  IN [G |-> g2,
      pos |-> Extend(st.pos, gene, CloudPosition(st.pos[tissue], entry.index, n, pcc)),
      genes_added |-> st.genes_added + added]

\* The passes for the rows lo..hi of tissue_genes, one after the other.
RECURSIVE GeneRows(_, _, _, _, _)
GeneRows(st, tissue_genes, tissue, lo, hi) ==
  IF lo > hi THEN st
  ELSE IF lo = hi THEN GeneRowStep(st, tissue_genes[lo], tissue, Len(tissue_genes))
  ELSE LET mid == (lo + hi) \div 2
           first == GeneRows(st, tissue_genes, tissue, lo, mid)
       IN IF first.genes_added >= 0   \* the first half is done before the second
          THEN GeneRows(first, tissue_genes, tissue, mid + 1, hi)
          ELSE first

\* Lines 68-107, one pass of the outer loop: the rows of the tissue sorted by
\* descending PCC, cut to max_genes_per_tissue with the print of line 74 when
\* there are more, and added row by row; row['Gene Symbol'] raises KeyError
\* on the first row when the column is missing.
AddTissueGenes ==
  /\ pc = "gene_loop"
  /\ LET tissue == tissue_types[k]
     IN \E sorted \in sort_values(TissueRows(filtered_df, tissue)) :
        \E written \in (IF Len(sorted) > max_genes_per_tissue THEN CanWrite ELSE {TRUE}) :
          LET tissue_genes == head(sorted, max_genes_per_tissue)
              st == GeneRows([G |-> G, pos |-> fixed_positions,
                              genes_added |-> genes_added],
                             tissue_genes, tissue, 1, Len(tissue_genes))
          IN IF ~written
             THEN StdoutRaises
             ELSE IF "Gene Symbol" \in csv.columns
             THEN /\ G' = st.G
                  /\ fixed_positions' = st.pos
                  /\ genes_added' = st.genes_added
                  /\ k' = k + 1
                  /\ pc' = IF k = Len(tissue_types) THEN "genes_added" ELSE "gene_loop"
                  /\ UNCHANGED << page_vars, csv, central_node, output_dir, df, filtered_df,
                                  tissue_types, tissue_gene_counts, tissue_colors,
                                  ti, nodes_data, links_data, html_content,
                                  dir_made, dir_exists, output, browser_opened, failed, result >>
             ELSE Raise("build")

\* Line 109, after the loop: print(f"Added {genes_added} gene nodes to graph")
ReportGenesAdded ==
  /\ pc = "genes_added"
  /\ \E written \in CanWrite :
       IF written
       THEN /\ pc' = "nodes_data"
            /\ UNCHANGED << page_vars, csv, central_node, output_dir, df, filtered_df,
                            tissue_types, tissue_gene_counts, tissue_colors, G,
                            fixed_positions, genes_added, ti, k, nodes_data, links_data,
                            html_content, dir_made, dir_exists, output, browser_opened,
                            failed, result >>
       ELSE StdoutRaises

\* fixed_positions[node][axis]: one coordinate of a position term.
Coord(p, axis) == [of |-> p, axis |-> axis]

\* tissue_colors.get(key, "#999999")
ColorOf(colors, key) == IF key \in DOMAIN colors THEN colors[key] ELSE "#999999"

\* Lines 116-125: the record of the central node.
CentralRecord(central, pos) ==
  [id |-> central, name |-> central, node_type |-> "central", size |-> 50,
   color |-> "red", x |-> Coord(pos[central], 0), y |-> Coord(pos[central], 1),
   label |-> central \o " (central)"]

\* G.nodes[node].get(key, default)
AttrGet(g, node, key, default) ==
  IF key \in DOMAIN g.attr[node] THEN g.attr[node][key] ELSE default

\* Lines 134-145: the record of a tissue node.
TissueRecord(g, pos, colors, node) ==
  [id |-> node, name |-> node, node_type |-> "tissue", size |-> 25,
   color |-> ColorOf(colors, node),
   gene_count |-> AttrGet(g, node, "gene_count", 0),
   x |-> Coord(pos[node], 0), y |-> Coord(pos[node], 1),
   label |-> node \o " (n=" \o ToString(AttrGet(g, node, "gene_count", 0)) \o ")"]

\* Lines 146-158: the record of a gene node.
GeneRecord(g, pos, colors, node) ==
  [id |-> node, name |-> node, node_type |-> "gene", size |-> 3,
   color |-> ColorOf(colors, AttrGet(g, node, "tissue", "None")),
   pcc |-> AttrGet(g, node, "pcc", 0),
   tissue |-> AttrGet(g, node, "tissue", "None"),
   x |-> Coord(pos[node], 0), y |-> Coord(pos[node], 1)]

\* Lines 128-158: the records of the other nodes, in node order; the node
\* named central_node is skipped, a node that is neither a tissue nor a gene
\* gets no record.
NodeRecords(g, pos, colors, central) ==
  LET listed == SelectSeq(g.nodes,
                  LAMBDA n : n # central
                             /\ AttrGet(g, n, "node_type", "None") \in {"tissue", "gene"})
  IN [j \in 1..Len(listed) |->
        IF AttrGet(g, listed[j], "node_type", "None") = "tissue"
        THEN TissueRecord(g, pos, colors, listed[j])
        ELSE GeneRecord(g, pos, colors, listed[j])]

\* Lines 112-158: nodes_data.
BuildNodesData ==
  /\ pc = "nodes_data"
  /\ nodes_data' = << CentralRecord(central_node, fixed_positions) >>
                     \o NodeRecords(G, fixed_positions, tissue_colors, central_node)
  /\ pc' = "links_data"
  /\ UNCHANGED << page_vars, csv, central_node, output_dir, df, filtered_df, tissue_types,
                  tissue_gene_counts, tissue_colors, G, fixed_positions,
                  genes_added, ti, k, links_data, html_content, dir_made, dir_exists,
                  output, browser_opened, failed, result >>

\* Lines 161-166: one link record per edge of G.edges().
LinkRecords(g) ==
  LET es == edges(g)
  IN [j \in 1..Len(es) |->
        [source |-> es[j][1], target |-> es[j][2],
         value |-> g.weight[{es[j][1], es[j][2]}]]]

BuildLinksData ==
  /\ pc = "links_data"
  /\ links_data' = LinkRecords(G)
  /\ pc' = "makedirs"
  /\ UNCHANGED << page_vars, csv, central_node, output_dir, df, filtered_df, tissue_types,
                  tissue_gene_counts, tissue_colors, G, fixed_positions,
                  genes_added, ti, k, nodes_data, html_content, dir_made, dir_exists,
                  output, browser_opened, failed, result >>

\* Line 170: output_dir and not os.path.exists(output_dir)
NeedsDirNever(dir, exists) == FALSE
NeedsDir(dir, exists) == dir # "" /\ ~exists

\* Lines 169-171: the directory of the output file is created when the path
\* names one and it does not exist; os.makedirs may raise OSError.
MakeDirs ==
  /\ pc = "makedirs"
  /\ \E ok \in BOOLEAN :
       IF ~NeedsDir(output_dir, dir_exists)
       THEN /\ pc' = "render"
            /\ UNCHANGED << page_vars, csv, central_node, output_dir, df, filtered_df,
                            tissue_types, tissue_gene_counts, tissue_colors, G,
                            fixed_positions, genes_added, ti, k, nodes_data,
                            links_data, html_content, dir_made, dir_exists, output,
                            browser_opened, failed, result >>
       ELSE IF ok
       THEN /\ dir_made' = TRUE
            /\ dir_exists' = TRUE
            /\ pc' = "render"
            /\ UNCHANGED << page_vars, csv, central_node, output_dir, df, filtered_df,
                            tissue_types, tissue_gene_counts, tissue_colors, G,
                            fixed_positions, genes_added, ti, k, nodes_data,
                            links_data, html_content, output, browser_opened,
                            failed, result >>
       ELSE Raise("makedirs")

\* Lines 174-853: the page with its two placeholders replaced by the JSON
\* text of nodes_data and links_data.
RenderPage(nodes, links) == [nodes |-> nodes, links |-> links]

Render ==
  /\ pc = "render"
  /\ html_content' = RenderPage(nodes_data, links_data)
  /\ pc' = "write"
  /\ UNCHANGED << page_vars, csv, central_node, output_dir, df, filtered_df, tissue_types,
                  tissue_gene_counts, tissue_colors, G, fixed_positions,
                  genes_added, ti, k, nodes_data, links_data, dir_made, dir_exists, output,
                  browser_opened, failed, result >>

\* Lines 856-857: open(output_file, 'w') creates or truncates the file and
\* f.write fills it. open may raise before the file is touched, and does so
\* when the directory is missing; f.write (or the flush on close) may raise
\* after the file was created or truncated.
WriteFile ==
  /\ pc = "write"
  /\ \E outcome \in (IF dir_exists THEN {"open_raises", "write_raises", "written"}
                                   ELSE {"open_raises"}) :
       IF outcome = "written"
       THEN /\ output' = [status |-> "written", content |-> html_content]
            /\ pc' = "saved"
            /\ UNCHANGED << page_vars, csv, central_node, output_dir, df, filtered_df,
                            tissue_types, tissue_gene_counts, tissue_colors, G,
                            fixed_positions, genes_added, ti, k, nodes_data,
                            links_data, html_content, dir_made, dir_exists, browser_opened,
                            failed, result >>
       ELSE IF outcome = "write_raises"
       THEN /\ output' = [status |-> "partial", content |-> NoContent]
            /\ pc' = Handler("write")
            /\ failed' = "write"
            /\ UNCHANGED << page_vars, csv, central_node, output_dir, df, filtered_df,
                            tissue_types, tissue_gene_counts, tissue_colors, G,
                            fixed_positions, genes_added, ti, k, nodes_data,
                            links_data, html_content, dir_made, dir_exists, browser_opened,
                            result >>
       ELSE Raise("write")

\* Line 859: print(f"Network visualization saved to ... and opened in browser")
ReportSaved ==
  /\ pc = "saved"
  /\ \E written \in CanWrite :
       IF written
       THEN /\ pc' = "open"
            /\ UNCHANGED << page_vars, csv, central_node, output_dir, df, filtered_df,
                            tissue_types, tissue_gene_counts, tissue_colors, G,
                            fixed_positions, genes_added, ti, k, nodes_data, links_data,
                            html_content, dir_made, dir_exists, output, browser_opened,
                            failed, result >>
       ELSE StdoutRaises

\* Line 862: webbrowser.open on the written file; it returns, or an
\* exception leaves it (webbrowser.Error, an audit hook, os.path.abspath).
OpenBrowser ==
  /\ pc = "open"
  /\ \E launched \in BOOLEAN :
       IF launched
       THEN /\ browser_opened' = TRUE
            /\ pc' = "return"
            /\ UNCHANGED << page_vars, csv, central_node, output_dir, df, filtered_df,
                            tissue_types, tissue_gene_counts, tissue_colors, G,
                            fixed_positions, genes_added, ti, k, nodes_data,
                            links_data, html_content, dir_made, dir_exists, output, failed,
                            result >>
       ELSE Raise("open")

\* Line 864: return G, fixed_positions
Return ==
  /\ pc = "return"
  /\ result' = [kind |-> "graph", G |-> G, fixed_positions |-> fixed_positions]
  /\ pc' = "done"
  /\ UNCHANGED << page_vars, csv, central_node, output_dir, df, filtered_df, tissue_types,
                  tissue_gene_counts, tissue_colors, G, fixed_positions,
                  genes_added, ti, k, nodes_data, links_data, html_content,
                  dir_made, dir_exists, output, browser_opened, failed >>

\* Lines 866-870: print(f"Error: {e}") to standard output, then
\* traceback.print_exc() to standard error, then return None, None. An
\* exception either write raises is raised outside the try block and leaves
\* create_web_network; traced is TRUE when standard error took the trace.
Except ==
  /\ pc = "except"
  /\ \E written \in CanWrite, traced \in BOOLEAN :
       IF written /\ traced
       THEN /\ result' = [kind |-> "None"]
            /\ pc' = "done"
       ELSE /\ pc' = "propagated"
            /\ UNCHANGED result
  /\ UNCHANGED << page_vars, csv, central_node, output_dir, df, filtered_df, tissue_types,
                  tissue_gene_counts, tissue_colors, G, fixed_positions,
                  genes_added, ti, k, nodes_data, links_data, html_content,
                  dir_made, dir_exists, output, browser_opened, failed >>

Next ==
  \/ Enter
  \/ Load
  \/ Filter
  \/ AddCentral
  \/ AddTissueNode
  \/ AddTissueGenes
  \/ ReportGenesAdded
  \/ BuildNodesData
  \/ BuildLinksData
  \/ MakeDirs
  \/ Render
  \/ WriteFile
  \/ ReportSaved
  \/ OpenBrowser
  \/ Return
  \/ Except

Spec == Init /\ [][Next]_vars

\* ================================================================ the page
\* Lines 346-846: the script of the generated page. It runs in the viewer
\* that line 862 launches, on the arrays line 852-853 wrote into the file.
pipeline_vars ==
  << csv, central_node, output_dir, pc, df, filtered_df, tissue_types,
     tissue_gene_counts, tissue_colors, G, fixed_positions, genes_added, ti, k,
     nodes_data, links_data, html_content, dir_made, dir_exists, output,
     browser_opened, failed, result >>

\* Lines 352-355: nodeMap, the place of the last record of each id.
NodeMap(nodes) ==
  [id \in {nodes[j].id : j \in 1..Len(nodes)} |->
     Max({j \in 1..Len(nodes) : nodes[j].id = id})]

\* Lines 680-704: the legend, an entry for nodeMap['GCH1'] if there is one
\* and an entry for every tissue record.
createLegend(nodes) ==
  LET tissueNodes == SelectSeq(nodes, LAMBDA n : n.node_type = "tissue")
  IN (IF "GCH1" \in DOMAIN NodeMap(nodes) THEN << "GCH1 (central)" >> ELSE << >>)
       \o [j \in 1..Len(tissueNodes) |->
             tissueNodes[j].name \o " (n=" \o ToString(tissueNodes[j].gene_count) \o ")"]

\* Lines 625-640: one coordinate of a gene placed anew around the coordinate
\* center of its tissue; distance and noise_scale in millionths. The two
\* Math.random draws are not part of the term.
RelayoutCoord(center, idx, n, pcc, axis) ==
  [kind |-> "relayout", center |-> center, num |-> idx, den |-> n,
   distance |-> 40 * 1000000 + (1000 - pcc) * 100 * 1000,
   noise_scale |-> 200000 + 500 * (1000 - pcc), axis |-> axis]

IsGeneOf(n, name) == n.node_type = "gene" /\ n.tissue = name

\* Lines 615-623: the place idx that tissueGenes.sort((a, b) => b.pcc - a.pcc)
\* gives record j among the gene records of its tissue (a stable sort).
SortedIndex(nodes, j) ==
  Cardinality({i \in 1..Len(nodes) :
                 /\ IsGeneOf(nodes[i], nodes[j].tissue)
                 /\ \/ nodes[i].pcc > nodes[j].pcc
                    \/ nodes[i].pcc = nodes[j].pcc /\ i < j})

\* Lines 609-642: every tissue record places the gene records that name it
\* around its own x and y.
optimizeLayout(nodes) ==
  [j \in 1..Len(nodes) |->
     IF /\ nodes[j].node_type = "gene"
        /\ \E t \in 1..Len(nodes) :
             nodes[t].node_type = "tissue" /\ nodes[t].name = nodes[j].tissue
     THEN LET t == CHOOSE t \in 1..Len(nodes) :
                     nodes[t].node_type = "tissue" /\ nodes[t].name = nodes[j].tissue
              n == Cardinality({i \in 1..Len(nodes) : IsGeneOf(nodes[i], nodes[j].tissue)})
              idx == SortedIndex(nodes, j)
          IN [nodes[j] EXCEPT
                !.x = RelayoutCoord(nodes[t].x, idx, n, nodes[j].pcc, 0),
                !.y = RelayoutCoord(nodes[t].y, idx, n, nodes[j].pcc, 1)]
     ELSE nodes[j]]

\* Lines 738-739: the dragged node goes where the pointer is.
DragCoord(axis) == [kind |-> "drag", axis |-> axis]
MoveNodeAll(nodes, j) ==
  [i \in 1..Len(nodes) |-> [nodes[i] EXCEPT !.x = DragCoord(0), !.y = DragCoord(1)]]
MoveNode(nodes, j) == [nodes EXCEPT ![j].x = DragCoord(0), ![j].y = DragCoord(1)]

\* Line 790: Math.max(MIN_SCALE, Math.min(MAX_SCALE, scale))
ClampBelow(s) == IF Less(s, MIN_SCALE) THEN MIN_SCALE ELSE s
Clamp(s) ==
  IF Less(s, MIN_SCALE) THEN MIN_SCALE ELSE IF Less(MAX_SCALE, s) THEN MAX_SCALE ELSE s

\* Lines 348-382 and 658-677, 845: the viewer runs the script on the arrays
\* of the file: the declarations, then initialize() with createLegend(),
\* resizeCanvas() and optimizeLayout().
LoadPage ==
  /\ ~loaded
  /\ pc = "done"
  /\ browser_opened
  /\ \E size \in ContainerSizes :
       /\ canvas_size' = size
       /\ offset' = Center(size)
  /\ loaded' = TRUE
  /\ legend' = createLegend(output.content.nodes)
  /\ nodesData' = optimizeLayout(output.content.nodes)
  /\ UNCHANGED << scale, dragNode, isDraggingCanvas, cursor, tooltip, wheels >>
  /\ UNCHANGED pipeline_vars

\* Lines 707-728; hit is the place of the node getNodeAtPosition returns for
\* the pointer, 0 when it returns null.
handleMouseDown(hit) ==
  /\ loaded
  /\ IF hit # 0
     THEN dragNode' = hit /\ UNCHANGED isDraggingCanvas
     ELSE isDraggingCanvas' = TRUE /\ UNCHANGED dragNode
  /\ cursor' = "grabbing"
  /\ UNCHANGED << loaded, nodesData, legend, scale, offset, tooltip, canvas_size, wheels >>
  /\ UNCHANGED pipeline_vars

\* Lines 731-759: a move drags the node, or else pans the canvas, or else
\* shows or hides the tooltip.
handleMouseMove(hit) ==
  /\ loaded
  /\ IF dragNode # 0
     THEN /\ nodesData' = MoveNode(nodesData, dragNode)
          /\ UNCHANGED << offset, cursor, tooltip >>
     ELSE IF isDraggingCanvas
     THEN /\ offset' = Panned
          /\ UNCHANGED << nodesData, cursor, tooltip >>
     ELSE IF hit # 0
     THEN /\ cursor' = "pointer"
          /\ tooltip' = nodesData[hit].id
          /\ UNCHANGED << nodesData, offset >>
     ELSE /\ cursor' = "default"
          /\ tooltip' = "none"
          /\ UNCHANGED << nodesData, offset >>
  /\ UNCHANGED << loaded, legend, scale, dragNode, isDraggingCanvas, canvas_size, wheels >>
  /\ UNCHANGED pipeline_vars

\* Lines 762-766
handleMouseUp ==
  /\ loaded
  /\ dragNode' = 0
  /\ isDraggingCanvas' = FALSE
  /\ cursor' = "default"
  /\ UNCHANGED << loaded, nodesData, legend, scale, offset, tooltip, canvas_size, wheels >>
  /\ UNCHANGED pipeline_vars

\* Lines 769-797; zoom_in is event.deltaY < 0.
handleWheel(zoom_in) ==
  /\ loaded
  /\ wheels' = wheels + 1
  /\ offset' = Zoomed
  /\ scale' = Clamp(Times(scale, IF zoom_in THEN ZOOM_IN ELSE ZOOM_OUT))
  /\ UNCHANGED << loaded, nodesData, legend, dragNode, isDraggingCanvas, cursor,
                  tooltip, canvas_size >>
  /\ UNCHANGED pipeline_vars

\* Lines 601-606
resetView ==
  /\ loaded
  /\ scale' = SCALE_ONE
  /\ offset' = Center(canvas_size)
  /\ wheels' = 0
  /\ UNCHANGED << loaded, nodesData, legend, dragNode, isDraggingCanvas, cursor,
                  tooltip, canvas_size >>
  /\ UNCHANGED pipeline_vars

\* Lines 609-646: the button 'auto-cluster'.
Recluster ==
  /\ loaded
  /\ nodesData' = optimizeLayout(nodesData)
  /\ UNCHANGED << loaded, legend, scale, offset, dragNode, isDraggingCanvas, cursor,
                  tooltip, canvas_size, wheels >>
  /\ UNCHANGED pipeline_vars

\* Lines 649-655: the window takes a size.
resizeCanvas ==
  /\ loaded
  /\ \E size \in ContainerSizes : canvas_size' = size
  /\ UNCHANGED << loaded, nodesData, legend, scale, offset, dragNode,
                  isDraggingCanvas, cursor, tooltip, wheels >>
  /\ UNCHANGED pipeline_vars

\* Lines 385-433: the picture is drawn on a canvas of its own and handed to
\* the browser as a download; no variable of the script is assigned.
downloadHighQualityPNG ==
  /\ loaded
  /\ UNCHANGED page_vars
  /\ UNCHANGED pipeline_vars

\* A wheel event in either direction.
Wheel == \E zoom_in \in BOOLEAN : handleWheel(zoom_in)

\* The other events of the page, hit ranging over the nodes and null.
PageEvents ==
  \/ LoadPage
  \/ \E hit \in 0..Len(nodesData) : handleMouseDown(hit)
  \/ \E hit \in 0..Len(nodesData) : handleMouseMove(hit)
  \/ handleMouseUp
  \/ resetView
  \/ Recluster
  \/ resizeCanvas
  \/ downloadHighQualityPNG

\* The call and then the page, for the tables of up to MaxPageRows rows
\* under the complete header, with at most MaxWheel wheel events.
MaxPageRows == 1
PageTables ==
  {t \in Tables : t.columns = RequiredColumns /\ Len(t.rows) <= MaxPageRows}

PageInit == Init /\ csv \in PageTables /\ output_dir = ""

PageNext ==
  \/ Next
  \/ PageEvents
  \/ wheels < MaxWheel /\ Wheel

PageSpec == PageInit /\ [][PageNext]_vars

\* The page alone, with up to MaxZoom wheel events in a row: the state in which the
\* call create_web_network(central_node='GCH1') on a table without rows has
\* returned its graph, and then the events of the page.
ZoomInit ==
  /\ csv = [columns |-> RequiredColumns, rows |-> << >>]
  /\ central_node = "GCH1"
  /\ output_dir = ""
  /\ pc = "done"
  /\ df = read_csv(csv)
  /\ filtered_df = FilterRows(df)
  /\ tissue_types = unique(Column(filtered_df, "Tumor"))
  /\ tissue_gene_counts = Counter(Column(filtered_df, "Tumor"))
  /\ tissue_colors = TissueColors(tissue_types)
  /\ G = add_node(EmptyGraph, central_node, [node_type |-> "central"])
  /\ fixed_positions = Extend(EmptyMap, central_node, Origin)
  /\ genes_added = 0
  /\ ti = 1
  /\ k = 1
  /\ nodes_data = << CentralRecord(central_node, fixed_positions) >>
                    \o NodeRecords(G, fixed_positions, tissue_colors, central_node)
  /\ links_data = LinkRecords(G)
  /\ html_content = RenderPage(nodes_data, links_data)
  /\ dir_made = FALSE
  /\ dir_exists = TRUE
  /\ output = [status |-> "written", content |-> html_content]
  /\ browser_opened = TRUE
  /\ failed = "none"
  /\ result = [kind |-> "graph", G |-> G, fixed_positions |-> fixed_positions]
  /\ NotLoaded

ZoomNext ==
  \/ PageEvents
  \/ wheels < MaxZoom /\ Wheel

ZoomSpec == ZoomInit /\ [][ZoomNext]_vars

\* ================================================================ claims
\* What the claims read: the end of the call, the returned graph, the arrays
\* in the written page, and the input file.
Done == pc = "done"
Returned == Done /\ result.kind = "graph"
ReturnedNone == Done /\ result.kind = "None"

NodeType(g, n) == AttrGet(g, n, "node_type", "None")
NodesOfType(g, type) == {n \in DOMAIN g.attr : NodeType(g, n) = type}
EdgeSet(g) == DOMAIN g.weight

RecordsOfType(nodes, type) == {j \in 1..Len(nodes) : nodes[j].node_type = type}
\* The node_type under which an id is emitted, "None" if it has no record.
EmittedType(nodes, id) ==
  IF \E j \in 1..Len(nodes) : nodes[j].id = id
  THEN nodes[CHOOSE j \in 1..Len(nodes) : nodes[j].id = id].node_type
  ELSE "None"
EmittedRecord(nodes, id) == nodes[CHOOSE j \in 1..Len(nodes) : nodes[j].id = id]

\* The rows of the input file with PCC >= 0.8, read off the file itself.
Qualifying ==
  LET all == read_csv(csv)
  IN SelectSeq(all, LAMBDA r : r.row["PCC"] >= PCC_THRESHOLD)
Triples(rows) ==
  {<<rows[j].row["Gene Symbol"], rows[j].row["Tumor"], rows[j].row["PCC"]>>
     : j \in 1..Len(rows)}
Tissues(rows) == {rows[j].row["Tumor"] : j \in 1..Len(rows)}
HasRowBelowThreshold ==
  /\ "PCC" \in csv.columns
  /\ \E j \in 1..Len(csv.rows) : csv.rows[j]["PCC"] < PCC_THRESHOLD

\* Everything of graph g that is a gene, a tissue or a gene-tissue edge comes
\* from a row of rows.
GraphBacked(g, rows) ==
  LET triples == Triples(rows)
      tissues == Tissues(rows)
  IN /\ \A n \in NodesOfType(g, "gene") :
          <<n, g.attr[n]["tissue"], g.attr[n]["pcc"]>> \in triples
     /\ \A n \in NodesOfType(g, "tissue") : n \in tissues
     /\ \A e \in EdgeSet(g) : \A u \in e, v \in e :
          (NodeType(g, u) = "gene" /\ NodeType(g, v) = "tissue")
             => <<u, v, g.weight[e] \div GENE_WEIGHT_FACTOR>> \in triples

\* The same of the node and link arrays of a page.
ArraysBacked(page, rows) ==
  LET triples == Triples(rows)
      tissues == Tissues(rows)
      genes == {page.nodes[j].id : j \in RecordsOfType(page.nodes, "gene")}
      cats == {page.nodes[j].id : j \in RecordsOfType(page.nodes, "tissue")}
  IN /\ \A j \in RecordsOfType(page.nodes, "gene") :
          <<page.nodes[j].id, page.nodes[j].tissue, page.nodes[j].pcc>> \in triples
     /\ cats \subseteq tissues
     /\ \A j \in 1..Len(page.links) :
          LET l == page.links[j]
          IN /\ (l.source \in genes /\ l.target \in cats)
                  => <<l.source, l.target, l.value \div GENE_WEIGHT_FACTOR>> \in triples
             /\ (l.target \in genes /\ l.source \in cats)
                  => <<l.target, l.source, l.value \div GENE_WEIGHT_FACTOR>> \in triples

\* C1: nothing of the output comes from a row with PCC below 0.8: in the
\* returned graph and in the node and link arrays of the written page, every
\* gene node carries the tissue and the score of an input row of that gene
\* with PCC >= 0.8, every tissue node is the tissue of such a row, and every
\* gene-tissue edge (g, t) joins the gene and the tissue of such a row and
\* has three times the score of one.
C1_OnlyQualifyingRows ==
  /\ Returned => GraphBacked(result.G, Qualifying)
  /\ output.status = "written" => ArraysBacked(output.content, Qualifying)

\* C1 happens: a call has returned a graph with a gene node for a file that
\* also holds a row below the threshold.
C1_Witness ==
  /\ Returned
  /\ HasRowBelowThreshold
  /\ NodesOfType(result.G, "gene") # {}
  /\ output.status = "written"

GeneSymbols(rows) == {rows[j].row["Gene Symbol"] : j \in 1..Len(rows)}
\* The gene nodes of g joined to node t by an edge.
AttachedGenes(g, t) == {n \in NodesOfType(g, "gene") : {n, t} \in EdgeSet(g)}

\* C2: for every tissue of the filtered table, the gene nodes attached to it
\* by an edge number min(distinct gene symbols among its filtered rows, 150)
\* and are exactly the symbols of its 150 highest-PCC rows, rows of equal PCC
\* taken in their original order.
C2_CapPerCategory ==
  Returned =>
    LET q == Qualifying
    IN \A t \in Tissues(q) :
         LET rows == TissueRows(q, t)
             top == head(sort_values_stable(rows), max_genes_per_tissue)
             attached == AttachedGenes(result.G, t)
         IN /\ Cardinality(attached)
                 = Min2(Cardinality(GeneSymbols(rows)), max_genes_per_tissue)
            /\ attached = GeneSymbols(top)

IsOrigin(p) == p.kind = "xy" /\ p.x = 0 /\ p.y = 0
IsZero(c) == c.of.kind = "xy" /\ (IF c.axis = 0 THEN c.of.x ELSE c.of.y) = 0

\* C3: when the call returns a graph, exactly one node record has node_type
\* 'central', its id is the central_node parameter, and the central node is
\* at (0, 0) in the returned position map and in that record.
C3_CentralNode ==
  Returned =>
    LET nodes == output.content.nodes
        central == RecordsOfType(nodes, "central")
    IN /\ Cardinality(central) = 1
       /\ \A j \in central :
            nodes[j].id = central_node /\ IsZero(nodes[j].x) /\ IsZero(nodes[j].y)
       /\ IsOrigin(result.fixed_positions[central_node])

\* C4: in the link array of the written page every link between a gene
\* record and a tissue record has 3 times the pcc of that gene record as
\* its value, and every link between the central record and a tissue record
\* has the value 5.0.
C4_EdgeWeights ==
  Returned =>
    LET nodes == output.content.nodes
        links == output.content.links
        typeOf == [id \in {nodes[j].id : j \in 1..Len(nodes)} |-> EmittedType(nodes, id)]
    IN \A j \in 1..Len(links) :
         LET l == links[j]
             types == {typeOf[l.source], typeOf[l.target]}
             gene == IF typeOf[l.source] = "gene" THEN l.source ELSE l.target
         IN /\ types = {"gene", "tissue"}
                 => l.value = EmittedRecord(nodes, gene).pcc * GENE_WEIGHT_FACTOR
            /\ types = {"central", "tissue"} => l.value = CENTRAL_WEIGHT

\* C5: every edge of the returned graph joins the central node and a tissue
\* node, or a gene node and a tissue node; there is no other kind of edge
\* and no self-loop.
C5_EdgeShapes ==
  Returned =>
    \A e \in EdgeSet(result.G) :
      /\ Cardinality(e) = 2
      /\ {NodeType(result.G, n) : n \in e} \in {{"central", "tissue"}, {"gene", "tissue"}}

\* C6: the written page holds as many tissue records as the rows with
\* PCC >= 0.8 have distinct tissue labels.
C6_CategoryCount ==
  Returned =>
    Cardinality(RecordsOfType(output.content.nodes, "tissue"))
      = Cardinality(Tissues(Qualifying))

\* C7: a call on a file that lacks a required column writes nothing to the
\* output path and returns (None, None).
C7_MissingColumn ==
  (Done /\ csv.columns # RequiredColumns)
    => (result.kind = "None" /\ output.status = "untouched")

\* C8: a call that returns (None, None) has not created or changed the file
\* at the output path.
C8_NoFileOnFailure == ReturnedNone => output.status = "untouched"

\* The stages of the pipeline whose statements may raise: reading the file,
\* the filter and the tissue column, the build, the directory, the write
\* and the viewer launch.
StageFailures == {"load", "filter", "build", "makedirs", "write", "open"}

\* C9: an exception raised by a statement of any stage of the pipeline is
\* caught: it never leaves create_web_network, the call then returns
\* (None, None), and a graph is returned only by a call in which nothing
\* raised, every tissue was processed, the page was written and the viewer
\* was launched.
C9_FailuresCaught ==
  /\ failed \in StageFailures => pc # "propagated"
  /\ (Done /\ failed # "none") => result.kind = "None"
  /\ Returned =>
       /\ failed = "none"
       /\ result.G = G /\ result.fixed_positions = fixed_positions
       /\ ti > Len(tissue_types) /\ k > Len(tissue_types)
       /\ output.status = "written" /\ browser_opened

\* The tissue and the score the first insertion of each gene node gives it:
\* the first tissue, in order of first appearance among the qualifying
\* rows, whose retained rows hold the gene, and the highest PCC of the
\* gene's rows in that tissue.
FirstInsertionKept(g, q) ==
  LET types == unique(Column(q, "Tumor"))
      holds == UNION { {<<j, x>> :
                          x \in GeneSymbols(head(sort_values_stable(TissueRows(q, types[j])),
                                                 max_genes_per_tissue))}
                       : j \in 1..Len(types) }
      triples == Triples(q)
  IN \A n \in NodesOfType(g, "gene") :
       LET first == types[Min({j \in 1..Len(types) : <<j, n>> \in holds})]
           scores == {t[3] : t \in {u \in triples : u[1] = n /\ u[2] = first}}
       IN g.attr[n]["tissue"] = first /\ g.attr[n]["pcc"] = Max(scores)

\* C10 as worded: the tissue of a gene node is the first tissue, in order of
\* first appearance, in which the gene has a qualifying row, and its pcc is
\* the highest PCC of the gene's rows in that tissue.
C10_FirstQualifyingTissue ==
  Returned =>
    LET q == Qualifying
        types == unique(Column(q, "Tumor"))
        triples == Triples(q)
    IN \A n \in NodesOfType(result.G, "gene") :
         LET first == types[Min({j \in 1..Len(types) :
                                  \E t \in triples : t[1] = n /\ t[2] = types[j]})]
             scores == {t[3] : t \in {u \in triples : u[1] = n /\ u[2] = first}}
         IN /\ result.G.attr[n]["tissue"] = first
            /\ result.G.attr[n]["pcc"] = Max(scores)

\* A pass of a loop leaves the tissue and the pcc of every gene node alone.
GeneAttributesKept ==
  \A n \in NodesOfType(G, "gene") :
    /\ G'.attr[n]["tissue"] = G.attr[n]["tissue"]
    /\ G'.attr[n]["pcc"] = G.attr[n]["pcc"]

\* C10, amended: a gene node has the tissue and the pcc of its first
\* insertion, which is the gene's highest-PCC row in the first tissue, in
\* first-seen order, whose retained rows (its max_genes_per_tissue
\* highest-PCC rows) hold the gene; no later row changes the two attributes.
C10_FirstInsertionKept ==
  /\ [](Returned => FirstInsertionKept(result.G, Qualifying))
  /\ [][GeneAttributesKept]_vars

\* C10 happens: a returned graph has a gene node for which the file holds a
\* further qualifying row with another tissue or another score.
C10_Witness ==
  /\ Returned
  /\ \E n \in NodesOfType(result.G, "gene") :
       \E t \in Triples(Qualifying) :
         /\ t[1] = n
         /\ t[2] # result.G.attr[n]["tissue"]
         /\ t[3] # result.G.attr[n]["pcc"]

\* C11: in the page, after any sequence of wheel, mouse-down, mouse-move,
\* mouse-up, reset-view, re-cluster and resize events, the zoom factor is at
\* least 0.1 and at most 5.
C11_ZoomBounded == ~Less(scale, MIN_SCALE) /\ ~Less(MAX_SCALE, scale)

\* C11 happens: wheel events have taken the zoom factor to its upper limit
\* while a node was being dragged and the tooltip was up.
C11_Witness ==
  /\ loaded
  /\ scale = MAX_SCALE
  /\ offset = Zoomed
  /\ dragNode # 0
  /\ tooltip # "none"

\* The x and y of every node of the page.
Coordinates == [j \in 1..Len(nodesData) |-> << nodesData[j].x, nodesData[j].y >>]
\* A mouse move while a node is dragged, while the canvas is panned, and
\* while neither is.
DragMove == dragNode # 0 /\ \E hit \in 0..Len(nodesData) : handleMouseMove(hit)
PanMove ==
  dragNode = 0 /\ isDraggingCanvas /\ \E hit \in 0..Len(nodesData) : handleMouseMove(hit)
HoverMove ==
  dragNode = 0 /\ ~isDraggingCanvas /\ \E hit \in 0..Len(nodesData) : handleMouseMove(hit)

\* C12: in the page the coordinates of the nodes change only through a node
\* drag or the re-layout: a step that changes a coordinate is a re-cluster
\* or a mouse move with a dragged node; panning, wheel zoom, reset-view,
\* hovering, resize, PNG export, mouse-down and mouse-up leave the x and y of
\* every node as they are; and a drag changes the x and y of the dragged
\* node only.
C12_NodeCoordinatesFrame ==
  /\ [][(loaded /\ Coordinates' # Coordinates) => (Recluster \/ DragMove)]_vars
  /\ [][(\/ PanMove \/ Wheel \/ resetView \/ HoverMove \/ resizeCanvas
          \/ downloadHighQualityPNG \/ handleMouseUp
          \/ \E hit \in 0..Len(nodesData) : handleMouseDown(hit))
           => Coordinates' = Coordinates]_vars
  /\ [][DragMove =>
          \A j \in 1..Len(nodesData) : j # dragNode => Coordinates'[j] = Coordinates[j]]_vars

\* C12 happens: the page of a graph with a tissue and a gene was zoomed and
\* then panned, a tooltip is up, and one node has been dragged while the
\* others are where the load put them.
C12_Witness ==
  /\ loaded
  /\ Len(nodesData) >= 3
  /\ wheels > 0
  /\ offset = Panned
  /\ tooltip # "none"
  /\ \E j \in 1..Len(nodesData) :
       /\ Coordinates[j] = << DragCoord(0), DragCoord(1) >>
       /\ \A i \in 1..Len(nodesData) :
            i # j => Coordinates[i] = << optimizeLayout(output.content.nodes)[i].x,
                                         optimizeLayout(output.content.nodes)[i].y >>

\* A coordinate that the re-layout computed around the coordinate center.
IsAround(c, center) ==
  "kind" \in DOMAIN c /\ c.kind = "relayout" /\ c.center = center

\* The array after holds every gene record of the array before anew around
\* the x and y its tissue record had before, and every other record where
\* it was.
ReclusteredFrom(before, after) ==
  \A j \in 1..Len(before) :
    IF before[j].node_type = "gene"
    THEN \E t \in 1..Len(before) :
           /\ before[t].node_type = "tissue"
           /\ before[t].name = before[j].tissue
           /\ IsAround(after[j].x, before[t].x)
           /\ IsAround(after[j].y, before[t].y)
    ELSE after[j].x = before[j].x /\ after[j].y = before[j].y

\* C13: optimizeLayout, run by the re-cluster button and once when the page
\* loads, places every gene record of the embedded node array anew around
\* the x and y its tissue record has at that moment, whatever the table and
\* the central identifier were, and leaves the x and y of the central record
\* and of the tissue records as they are.
C13_ReclusterAllGenes ==
  /\ [][Recluster => ReclusteredFrom(nodesData, nodesData')]_vars
  /\ [][LoadPage => ReclusteredFrom(output.content.nodes, nodesData')]_vars

\* C14: for any central_node the legend of the page holds one entry for the
\* central node, labelled with the central identifier, and then exactly one
\* entry for every tissue node of the graph, with its name and gene count.
C14_Legend ==
  loaded =>
    LET cats == NodesOfType(G, "tissue")
        entry(t) == t \o " (n=" \o ToString(G.attr[t]["gene_count"]) \o ")"
    IN /\ Len(legend) = 1 + Cardinality(cats)
       /\ legend[1] = central_node \o " (central)"
       /\ \A t \in cats :
            Cardinality({j \in 2..Len(legend) : legend[j] = entry(t)}) = 1

\* C15: when the pass of the gene loop for a tissue is over, the base angle
\* of each of its genes is (idx / n) * 2 pi with n the number of retained
\* rows of the tissue and idx the place, 0 .. n-1, of the gene's row in the
\* tissue's rows sorted by descending PCC (of its last such row, when the
\* symbol comes twice), whatever the places of the rows in the input file.
C15_BaseAngle ==
  (pc \in {"gene_loop", "genes_added"} /\ k > 1) =>
    LET tissue == tissue_types[k - 1]
        rows == TissueRows(filtered_df, tissue)
    IN \E sorted \in sort_values(rows) :
         LET tissue_genes == head(sorted, max_genes_per_tissue)
             n == Len(tissue_genes)
         IN \A i \in 1..n :
              LET gene == tissue_genes[i].row["Gene Symbol"]
              IN (\A j \in (i + 1)..n : tissue_genes[j].row["Gene Symbol"] # gene)
                   => /\ fixed_positions[gene].kind = "cloud"
                      /\ fixed_positions[gene].num = i - 1
                      /\ fixed_positions[gene].den = n

\* C16: the gene_count of every tissue node, in the returned graph and in
\* its record of the written page, is the number of gene nodes joined to it
\* by an edge, also above the cap and with repeated gene symbols.
C16_GeneCount ==
  Returned =>
    /\ \A t \in NodesOfType(result.G, "tissue") :
         result.G.attr[t]["gene_count"] = Cardinality(AttachedGenes(result.G, t))
    /\ \A j \in RecordsOfType(output.content.nodes, "tissue") :
         output.content.nodes[j].gene_count
           = Cardinality(AttachedGenes(result.G, output.content.nodes[j].id))

\* C17: the stages run in one order. The directory of the output path is
\* there, created if it was missing, when the page is rendered and the file
\* is written; the file holds the complete page before the viewer is
\* launched and is not touched afterwards; the viewer is launched only in a
\* run in which nothing raised, every tissue was processed and the arrays
\* of the whole graph were written; and the graph is returned only after
\* the viewer was launched.
C17_StageOrder ==
  /\ [](pc \in {"render", "write", "saved", "open", "return"} => dir_exists)
  /\ [](output.status # "untouched" => dir_exists)
  /\ []((pc \in {"saved", "open"} \/ browser_opened) =>
          /\ output.status = "written"
          /\ output.content = RenderPage(nodes_data, links_data))
  /\ [](browser_opened =>
          /\ failed = "none"
          /\ ti > Len(tissue_types) /\ k > Len(tissue_types)
          /\ nodes_data = << CentralRecord(central_node, fixed_positions) >>
                \o NodeRecords(G, fixed_positions, tissue_colors, central_node)
          /\ links_data = LinkRecords(G))
  /\ [](Returned => browser_opened)
  /\ [][output' # output => (pc = "write" /\ ~browser_opened)]_vars
  /\ [][browser_opened' # browser_opened => (pc = "open" /\ pc' = "return")]_vars
  /\ [][result' # result => (pc' = "done" /\ (result'.kind = "graph" <=> pc = "return"))]_vars

\* C17 happens: a call whose output directory was missing has created it,
\* written the page of a graph with genes, launched the viewer and returned.
C17_Witness ==
  /\ Returned
  /\ dir_made
  /\ browser_opened
  /\ NodesOfType(result.G, "gene") # {}

\* C18: in the returned position map every gene node lies around its owning
\* tissue: its position is a cloud position whose anchor is the position
\* the map gives the tissue named in the node's tissue attribute, also for
\* a gene symbol with qualifying rows in several tissues.
C18_AnchoredAtOwner ==
  Returned =>
    \A n \in NodesOfType(result.G, "gene") :
      /\ result.fixed_positions[n].kind = "cloud"
      /\ result.fixed_positions[n].center
           = result.fixed_positions[result.G.attr[n]["tissue"]]

\* C19: in the page, after any sequence of mouse-down, mouse-move and
\* mouse-up events, node-drag mode (dragNode not null) and canvas-pan mode
\* (isDraggingCanvas) are never both on, and every mouse-up leaves both off.
C19_ModesExclusive ==
  /\ [](~(dragNode # 0 /\ isDraggingCanvas))
  /\ [][handleMouseUp => (dragNode' = 0 /\ ~isDraggingCanvas')]_vars

====
